---------------------------- MODULE Spec2Model ----------------------------
(***************************************************************************)
(* Model of the wallet session and the NFT mint workflow of                *)
(* src/frontend/js/web3/wallet-connection.js (classes WalletConnection and *)
(* NFTMinting) and of the PortfolioMandala contract (src/unnamed/part_001).*)
(* Every handler is split at its awaits: one action for the synchronous    *)
(* part up to the await, one for each continuation.                        *)
(***************************************************************************)
EXTENDS Integers, Sequences, FiniteSets, TLC

\* ---------------------------------------------------------------- bounds
\* mint attempts that may pass the guards of mintNFT on one page
MaxMints == 2
\* mintNFT invocations (clicks) counted on one page
MaxCalls == 3
\* handleAccountsChanged continuations that may await eth_chainId at once
MaxPending == 1
\* polls of one attempt that specification Spec follows (SpecPoll follows
\* an attempt through all of them)
MaxPolls == 2
\* mint-status requests checkMintStatus may issue on one page
MaxFetches == 2
\* tokens the contract may mint
MaxTokens == 3
\* mint calls that may be nested in one transaction
MaxDepth == 2
\* length of the longest of the short strings the address helpers are applied to
MaxShort == 12

\* ------------------------------------------------------ program constants
\* waitForTransactionConfirmation: const maxAttempts = 60
maxAttempts == 60

\* JavaScript null, for the string-valued fields
null == "null"
\* JavaScript null, for the account field (accounts are character sequences)
NoAccount == << >>

\* targetNetwork.chainId
TargetChain == "0x13882"
OtherChain == "0x1"
Chains == {TargetChain, OtherChain}

\* accounts: sequences of characters, so that letter case is explicit
AcctLower == <<"a", "b">>
AcctMixed == <<"A", "b">>
AcctOther == <<"c", "d">>
\* accounts the wallet may expose, and addresses the page may ask to mint for
WalletAccounts == {AcctLower, AcctOther}
Traders == {AcctLower, AcctMixed, AcctOther}
\* the accounts canUserMint is applied to in SpecCanMint: every spelling of
\* two letters in either case
Letters == {"a", "A", "b", "B"}
Spellings == {<<x, y>> : x \in Letters, y \in Letters}

\* String.prototype.toLowerCase on one character
LowerChar(c) ==
    CASE c = "A" -> "a"
      [] c = "B" -> "b"
      [] c = "C" -> "c"
      [] c = "D" -> "d"
      [] OTHER -> c

toLowerCase(s) == [i \in DOMAIN s |-> LowerChar(s[i])]

\* data.transaction of the response to the prepare-mint request of attempt
\* i: every response is an object of its own
PreparedTransaction(i) == "tx" \o ToString(i)
\* transaction hashes the wallet may return, token ids the endpoint may report
Hashes == {"h1", "h2"}
TokenIds == {1, 2}
\* answers of POST /nft/transaction-status; "error" is a rejected fetch or an
\* unparsable body, "other" a status string the code does not know
StatusAnswers == {"confirmed", "failed", "pending", "other", "error"}

VARIABLES
    \* host environment
    hasEthereum,      \* typeof window.ethereum !== 'undefined'
    walletAccounts,   \* what the wallet answers to eth_accounts
    walletChain,      \* what the wallet answers to eth_chainId
    \* WalletConnection
    isConnected, currentAccount, provider, chainId,
    initPc,           \* position of WalletConnection.init
    chainReq,         \* handleAccountsChanged continuations awaiting eth_chainId
    \* NFTMinting
    isMinting,
    att,              \* the mint attempts of this page, by number
    nAtt,             \* attempts that passed the guards of mintNFT
    calls,            \* mintNFT invocations so far
    lastToast,        \* the toast MandalaApp.showToast displayed last
    \* canUserMint applied to drawn inputs (specification SpecCanMint)
    cmArg, cmResult,
    \* WalletConnection, continued
    conn,             \* the connectWallet invocation made last
    ens,              \* the ensureCorrectNetwork invocation made last, by caller
    op,               \* the session handler that ran last on this page
    \* NFTMinting, continued
    contractAddress,
    mintButton,       \* textContent and disabled of #mint-nft-btn
    fetches,          \* the mint-status requests of checkMintStatus, by number
    nFetch,           \* mint-status requests issued so far
    lastCheck,        \* the checkMintStatus call made last
    status,           \* the mint status received last, by account
    \* PortfolioMandala
    tokenIdCounter, traderToTokenId, hasMinted, mintingPaused,
    tokenOwner,       \* ERC721 _owners
    stack,            \* the mint calls being executed, outermost first
    lastCall,         \* the contract call made last and how it ended
    mintLog,          \* the mint calls that succeeded, by caller
    \* the address helpers applied to a drawn input (specification SpecAddress)
    addressArg,       \* the value they are applied to
    valid,            \* MandalaApp.isValidAddress(addressArg)
    formatted,        \* MandalaApp.formatAddress(addressArg)
    shown             \* WalletConnection.formatAddress(addressArg)

sessionVars == <<isConnected, currentAccount, provider, chainId, initPc, chainReq,
                 conn, ens, op>>
envVars == <<hasEthereum, walletAccounts, walletChain>>
mintVars == <<isMinting, att, nAtt, calls, mintButton>>
cmVars == <<cmArg, cmResult>>
uiVars == <<contractAddress, fetches, nFetch, lastCheck, status>>
storageVars == <<tokenIdCounter, traderToTokenId, hasMinted, mintingPaused, tokenOwner>>
contractVars == <<storageVars, stack, lastCall, mintLog>>
helperVars == <<addressArg, valid, formatted, shown>>
otherVars == <<cmVars, uiVars, contractVars, helperVars>>
pageVars == <<envVars, sessionVars, mintVars, lastToast, cmVars, uiVars, helperVars>>
vars == <<pageVars, contractVars>>

\* ------------------------------------------------------ WalletConnection

isWalletConnected == isConnected

isOnCorrectNetwork == chainId = TargetChain

\* mutants: the network is not checked; the accounts are compared as written
canUserMint_AnyNetwork(traderAddress) ==
    /\ isConnected
    /\ currentAccount # NoAccount
    /\ toLowerCase(currentAccount) = toLowerCase(traderAddress)

canUserMint_CaseSensitive(traderAddress) ==
    /\ isConnected
    /\ currentAccount # NoAccount
    /\ currentAccount = traderAddress
    /\ isOnCorrectNetwork

\* canUserMint, lines 269-274
canUserMint(traderAddress) ==
    /\ isConnected
    /\ currentAccount # NoAccount
    /\ toLowerCase(currentAccount) = toLowerCase(traderAddress)
    /\ isOnCorrectNetwork

\* an attempt that mintNFT has not started
NoAttempt ==
    [pc |-> "none", trader |-> NoAccount, from |-> NoAccount, hash |-> null,
     attempts |-> 0, awaited |-> FALSE, errToast |-> FALSE, error |-> null,
     tokenId |-> 0,
     \* what the status endpoint answered to the latest poll (null while the
     \* poll is outstanding), the token id in that answer, and whether every
     \* answer to the polls before the latest was pending
     answer |-> null, answerToken |-> 0, priorPending |-> TRUE,
     \* data.transaction of the prepare-mint response, whether the user
     \* accepted the confirmation dialog, and the parameters of the
     \* eth_sendTransaction requests made
     transaction |-> null, accepted |-> FALSE, sent |-> << >>]

\* a connectWallet invocation that was not made.  wallet is what the wallet
\* answers to the account-access request of the invocation, ensured counts
\* its calls of ensureCorrectNetwork, endConnected and endAccount are the
\* session fields at the moment it returned
\* what the wallet answers to eth_requestAccounts: a list of accounts, or an
\* error, named by its code or by what distinguishes its message
Grant(accounts) == [error |-> null, accounts |-> accounts]
Refuse(error) == [error |-> error, accounts |-> << >>]
AccessErrors == {"4001", "-32002", "User rejected", "error"}

NoConnect ==
    [pc |-> "idle", wallet |-> Grant(<< >>), wasConnected |-> FALSE,
     requested |-> FALSE, ensured |-> 0, result |-> null,
     endConnected |-> FALSE, endAccount |-> NoAccount]

\* ensureCorrectNetwork is called by connectWallet (line 65) and by the
\* 'Switch Network' button of updateUI (line 216)
Callers == {"connect", "ui"}

\* an ensureCorrectNetwork invocation that was not made.  seen is the chain
\* the provider reported to it, requests the methods it asked the provider
\* for, switchAnswer what the provider answered to the switch request
NoEnsure ==
    [pc |-> "idle", seen |-> null, requests |-> << >>, switchAnswer |-> null,
     result |-> null]

\* window.API_CONFIG.CONTRACT_ADDRESS, when the page configures one
ConfiguredAddress == "0xC0"

\* the mint button before the page's scripts touched it
NoButton == [text |-> null, disabled |-> FALSE]

\* a mint-status request that was not issued
NoFetch == [pc |-> "none", trader |-> NoAccount, answer |-> null]
\* no checkMintStatus call was made; a call, its argument and the mint-status
\* requests it issued
NoCheck == [called |-> FALSE, trader |-> NoAccount, requests |-> 0]

\* answers to GET /nft/mint-status: has_minted true, has_minted false or
\* absent, and "error" for a rejected fetch or an unparsable body
MintStatusAnswers == {"minted", "open", "error"}

\* the accounts the mint status is kept for
StatusAccounts == {toLowerCase(t) : t \in Traders}

\* contract callers: the deployer (the owner) and another externally owned
\* account, and a contract that implements onERC721Received
Deployer == "deployer"
Addresses == {Deployer, "alice", "vault"}
IsContract(a) == a = "vault"
\* address(0)
ZeroAddress == "0x0"

\* the two mint entry points, lines 52 and 159
MintFunctions == {"mintMandala", "mintMandalaChecked"}

\* no call was made to the contract yet.  step is "call" for the step in
\* which a call is made and "return" for the step in which a call that had
\* to wait for the receiver's callback ends
NoCall == [caller |-> ZeroAddress, fn |-> "none", step |-> "none", outcome |-> "none"]

\* JavaScript values the address helpers are applied to and return: null, or
\* a string, written as the sequence of its characters
JsNull == [isNull |-> TRUE, chars |-> << >>]
Str(s) == [isNull |-> FALSE, chars |-> s]

\* a helper that was not called, and what a call of it returned
NotValidated == [called |-> FALSE, value |-> FALSE]
NotFormatted == [called |-> FALSE, value |-> JsNull]
Returned(v) == [called |-> TRUE, value |-> v]

\* no address helper was applied
NoHelperCalled ==
    /\ valid = NotValidated
    /\ formatted = NotFormatted
    /\ shown = NotFormatted

\* a page on which no address helper is looked at
NoHelperInput ==
    /\ addressArg = JsNull
    /\ NoHelperCalled

\* the contract after its constructor, lines 36-45 and 141
ContractInit ==
    /\ tokenIdCounter = 1
    /\ traderToTokenId = [a \in Addresses |-> 0]
    /\ hasMinted = [a \in Addresses |-> FALSE]
    /\ mintingPaused = FALSE
    /\ tokenOwner = [t \in 1..MaxTokens |-> ZeroAddress]
    /\ stack = << >>
    /\ lastCall = NoCall
    /\ mintLog = [a \in Addresses |-> 0]

\* the state after both constructors ran (WalletConnection, lines 7-28, with
\* init() up to its first await, lines 30-36; NFTMinting, lines 287-294, with
\* loadContractInfo up to its await, lines 302-312), for any wallet the host
\* environment may hold, and the contract as deployed; address is the
\* contract address of the page's configuration, null when it has none
Constructed(address) ==
    /\ hasEthereum \in BOOLEAN
    /\ walletAccounts \in {<< >>} \cup {<<a>> : a \in WalletAccounts}
    /\ walletChain \in Chains
    /\ isConnected = FALSE
    /\ currentAccount = NoAccount
    /\ provider = (IF hasEthereum THEN "ethereum" ELSE null)
    /\ chainId = null
    /\ initPc = (IF hasEthereum THEN "accounts" ELSE "done")
    /\ chainReq = 0
    /\ isMinting = FALSE
    /\ att = [i \in 1..MaxMints |-> NoAttempt]
    /\ nAtt = 0
    /\ calls = 0
    /\ lastToast = null
    /\ cmArg = NoAccount
    /\ cmResult = FALSE
    /\ conn = NoConnect
    /\ ens = [w \in Callers |-> NoEnsure]
    /\ op = "none"
    /\ contractAddress = address
    /\ mintButton = NoButton
    /\ fetches = [i \in 1..MaxFetches |-> NoFetch]
    /\ nFetch = 0
    /\ lastCheck = NoCheck
    /\ status = [a \in StatusAccounts |-> "none"]
    /\ ContractInit

\* a page whose configuration names the contract
Init == Constructed(ConfiguredAddress) /\ NoHelperInput

\* window.location.reload(): the page is torn down with every continuation
\* and timer of it, and both objects are constructed again
Reload ==
    /\ isConnected' = FALSE
    /\ currentAccount' = NoAccount
    /\ provider' = (IF hasEthereum THEN "ethereum" ELSE null)
    /\ chainId' = null
    /\ initPc' = (IF hasEthereum THEN "accounts" ELSE "done")
    /\ chainReq' = 0
    /\ isMinting' = FALSE
    /\ att' = [i \in 1..MaxMints |-> NoAttempt]
    /\ nAtt' = 0
    /\ calls' = 0
    /\ lastToast' = null
    /\ cmArg' = NoAccount
    /\ cmResult' = FALSE
    /\ conn' = NoConnect
    /\ ens' = [w \in Callers |-> NoEnsure]
    /\ op' = "none"
    /\ UNCHANGED contractAddress
    /\ mintButton' = NoButton
    /\ fetches' = [i \in 1..MaxFetches |-> NoFetch]
    /\ nFetch' = 0
    /\ lastCheck' = NoCheck
    /\ status' = [a \in StatusAccounts |-> "none"]

\* the listeners of init() are registered (lines 42-44)
listening == initPc = "ready"

\* mutants: the account is kept; the chain is kept
DisconnectWalletEffect_KeepsAccount ==
    /\ isConnected' = FALSE
    /\ UNCHANGED currentAccount
    /\ provider' = null
    /\ chainId' = null
    /\ lastToast' = "Wallet disconnected"

DisconnectWalletEffect_KeepsChain ==
    /\ isConnected' = FALSE
    /\ currentAccount' = NoAccount
    /\ provider' = null
    /\ UNCHANGED chainId
    /\ lastToast' = "Wallet disconnected"

\* disconnectWallet, lines 79-88
DisconnectWalletEffect ==
    /\ isConnected' = FALSE
    /\ currentAccount' = NoAccount
    /\ provider' = null
    /\ chainId' = null
    /\ lastToast' = "Wallet disconnected"

\* the user-facing disconnect (disconnectWallet called directly)
DisconnectWallet ==
    /\ DisconnectWalletEffect
    /\ op' = "disconnect"
    /\ UNCHANGED <<initPc, chainReq, conn, ens>>
    /\ UNCHANGED envVars
    /\ UNCHANGED mintVars
    /\ UNCHANGED otherVars

\* mutant: the event is received and nothing is done
HandleDisconnect_Ignored ==
    /\ listening
    /\ op' = "handleDisconnect"
    /\ UNCHANGED <<isConnected, currentAccount, provider, chainId, lastToast>>
    /\ UNCHANGED <<initPc, chainReq, conn, ens>>
    /\ UNCHANGED envVars
    /\ UNCHANGED mintVars
    /\ UNCHANGED otherVars

\* handleDisconnect, lines 113-115: the provider's 'disconnect' event
HandleDisconnect ==
    /\ listening
    /\ DisconnectWalletEffect
    /\ op' = "handleDisconnect"
    /\ UNCHANGED <<initPc, chainReq, conn, ens>>
    /\ UNCHANGED envVars
    /\ UNCHANGED mintVars
    /\ UNCHANGED otherVars

\* handleAccountsChanged up to its await, lines 90-98.  With provider null
\* (after disconnectWallet) this.provider.request throws a TypeError after
\* the two assignments, and no continuation is left.
HandleAccountsChangedSync(accounts) ==
    IF Len(accounts) = 0
    THEN /\ DisconnectWalletEffect
         /\ UNCHANGED chainReq
    ELSE /\ currentAccount' = accounts[1]
         /\ isConnected' = TRUE
         /\ UNCHANGED <<provider, chainId, lastToast>>
         /\ IF provider = null
            THEN UNCHANGED chainReq
            ELSE /\ chainReq < MaxPending
                 /\ chainReq' = chainReq + 1

\* the wallet changes the accounts it exposes; 'accountsChanged' reaches
\* handleAccountsChanged once the listeners are registered
AccountsChanged(accounts) ==
    /\ hasEthereum
    /\ accounts # walletAccounts
    /\ walletAccounts' = accounts
    /\ IF listening
       THEN /\ HandleAccountsChangedSync(accounts)
            /\ op' = "handleAccountsChanged"
       ELSE UNCHANGED <<isConnected, currentAccount, provider, chainId,
                        chainReq, lastToast, op>>
    /\ UNCHANGED <<hasEthereum, walletChain, initPc, conn, ens>>
    /\ UNCHANGED mintVars
    /\ UNCHANGED otherVars

\* handleAccountsChanged after its await, lines 98-101: eth_chainId answered
AccountsChangedResume ==
    /\ chainReq > 0
    /\ chainReq' = chainReq - 1
    /\ chainId' = walletChain
    /\ op' = "handleAccountsChanged resumed"
    /\ UNCHANGED <<isConnected, currentAccount, provider, initPc, lastToast,
                   conn, ens>>
    /\ UNCHANGED envVars
    /\ UNCHANGED mintVars
    /\ UNCHANGED otherVars

\* the wallet changes network; 'chainChanged' reaches handleChainChanged
\* (lines 105-111), which reloads the page
ChainChanged(c) ==
    /\ hasEthereum
    /\ c # walletChain
    /\ walletChain' = c
    /\ IF listening
       THEN Reload
       ELSE UNCHANGED <<sessionVars, mintVars, lastToast, cmVars, uiVars>>
    /\ UNCHANGED <<hasEthereum, walletAccounts>>
    /\ UNCHANGED <<contractVars, helperVars>>

\* init() after eth_accounts, lines 36-47
InitAccounts ==
    /\ initPc = "accounts"
    /\ IF Len(walletAccounts) > 0
       THEN /\ currentAccount' = walletAccounts[1]
            /\ isConnected' = TRUE
            /\ initPc' = (IF provider = null THEN "failed" ELSE "chain")
       ELSE /\ UNCHANGED <<currentAccount, isConnected>>
            /\ initPc' = (IF provider = null THEN "failed" ELSE "ready")
    /\ op' = "init"
    /\ UNCHANGED <<provider, chainId, chainReq, lastToast, conn, ens>>
    /\ UNCHANGED envVars
    /\ UNCHANGED mintVars
    /\ UNCHANGED otherVars

\* init() awaiting handleAccountsChanged: eth_chainId answered, lines 98-101,
\* then the listeners are registered, lines 42-44
InitChain ==
    /\ initPc = "chain"
    /\ chainId' = walletChain
    /\ initPc' = (IF provider = null THEN "failed" ELSE "ready")
    /\ op' = "init"
    /\ UNCHANGED <<isConnected, currentAccount, provider, chainReq, lastToast,
                   conn, ens>>
    /\ UNCHANGED envVars
    /\ UNCHANGED mintVars
    /\ UNCHANGED otherVars

\* mutant: every cause gets the general message
parseWalletError_Generic(error) == "Connection failed: " \o error

\* parseWalletError, lines 244-254; "TypeError" is the error of calling
\* request on a provider that is null
parseWalletError(error) ==
    CASE error = "4001" -> "Connection rejected by user"
      [] error = "-32002" -> "Connection request already pending"
      [] error = "User rejected" -> "Connection rejected by user"
      [] OTHER -> "Connection failed: " \o error

\* connectWallet returns: the invocation ends with the session as this step
\* leaves it
ConnectReturn(result) ==
    conn' = [conn EXCEPT !.pc = "done", !.result = result,
                         !.endConnected = isConnected',
                         !.endAccount = currentAccount']

\* mutant: the host environment is not looked at
NoProvider_Never == FALSE

\* line 51: typeof window.ethereum === 'undefined'
NoProvider == ~hasEthereum

\* connectWallet up to its await of eth_requestAccounts, lines 50-59; answer
\* is what the wallet answers to an account-access request made now
ConnectWallet(answer) ==
    /\ conn.pc \in {"idle", "done"}
    /\ op' = "connectWallet"
    /\ UNCHANGED <<isConnected, currentAccount, provider, chainId, initPc,
                   chainReq, ens>>
    /\ LET call == [NoConnect EXCEPT !.wallet = answer,
                                     !.wasConnected = isConnected]
       IN IF NoProvider
          THEN /\ lastToast' =
                     "MetaMask is not installed. Please install MetaMask to continue."
               /\ conn' = [call EXCEPT !.pc = "done", !.result = "false",
                                       !.endConnected = isConnected,
                                       !.endAccount = currentAccount]
          ELSE IF provider = null
          THEN /\ lastToast' = parseWalletError("TypeError")
               /\ conn' = [call EXCEPT !.pc = "done", !.result = "false",
                                       !.endConnected = isConnected,
                                       !.endAccount = currentAccount]
          ELSE /\ conn' = [call EXCEPT !.pc = "request", !.requested = TRUE]
               /\ UNCHANGED lastToast
    /\ UNCHANGED envVars
    /\ UNCHANGED mintVars
    /\ UNCHANGED otherVars

\* connectWallet after eth_requestAccounts, lines 59-62 and 71-76, with
\* handleAccountsChanged up to its await, lines 90-98.  A granted list is what
\* the wallet exposes from then on.
ConnectResponse ==
    /\ conn.pc = "request"
    /\ op' = "connectWallet"
    /\ LET answer == conn.wallet
       IN IF answer.error # null
          THEN /\ lastToast' = parseWalletError(answer.error)
               /\ UNCHANGED <<isConnected, currentAccount, walletAccounts>>
               /\ ConnectReturn("false")
          ELSE IF Len(answer.accounts) = 0
          THEN /\ UNCHANGED <<isConnected, currentAccount, walletAccounts,
                              lastToast>>
               /\ ConnectReturn("false")
          ELSE /\ walletAccounts' = answer.accounts
               /\ currentAccount' = answer.accounts[1]
               /\ isConnected' = TRUE
               /\ IF provider = null
                  THEN /\ lastToast' = parseWalletError("TypeError")
                       /\ ConnectReturn("false")
                  ELSE /\ conn' = [conn EXCEPT !.pc = "chain"]
                       /\ UNCHANGED lastToast
    /\ UNCHANGED <<provider, chainId, initPc, chainReq, ens>>
    /\ UNCHANGED <<hasEthereum, walletChain>>
    /\ UNCHANGED mintVars
    /\ UNCHANGED otherVars

\* ensureCorrectNetwork up to its await of eth_chainId, lines 117-120
EnsureBegin ==
    IF provider = null
    THEN [NoEnsure EXCEPT !.pc = "done", !.result = "false"]
    ELSE [NoEnsure EXCEPT !.pc = "chain", !.requests = <<"eth_chainId">>]

\* ensureCorrectNetwork returns, after the toast it showed if any; when
\* connectWallet awaits it, connectWallet goes on to its end, lines 65-68
EnsureReturn(w, e, result, toast) ==
    /\ ens' = [ens EXCEPT ![w] = [e EXCEPT !.pc = "done", !.result = result]]
    /\ IF w = "connect"
       THEN /\ lastToast' = "Wallet connected successfully!"
            /\ conn' = [conn EXCEPT !.pc = "done", !.result = "true",
                                    !.endConnected = isConnected,
                                    !.endAccount = currentAccount]
       ELSE /\ lastToast' = (IF toast = null THEN lastToast ELSE toast)
            /\ UNCHANGED conn

\* connectWallet after handleAccountsChanged's eth_chainId, lines 98-101,
\* then its call of ensureCorrectNetwork, line 65
ConnectChain ==
    /\ conn.pc = "chain"
    /\ op' = "connectWallet"
    /\ chainId' = walletChain
    /\ UNCHANGED <<isConnected, currentAccount, provider, initPc, chainReq>>
    /\ IF EnsureBegin.pc = "done"
       THEN /\ ens' = [ens EXCEPT !["connect"] = EnsureBegin]
            /\ lastToast' = "Wallet connected successfully!"
            /\ conn' = [conn EXCEPT !.pc = "done", !.result = "true",
                                    !.ensured = @ + 1,
                                    !.endConnected = isConnected,
                                    !.endAccount = currentAccount]
       ELSE /\ ens' = [ens EXCEPT !["connect"] = EnsureBegin]
            /\ conn' = [conn EXCEPT !.pc = "ensure", !.ensured = @ + 1]
            /\ UNCHANGED lastToast
    /\ UNCHANGED envVars
    /\ UNCHANGED mintVars
    /\ UNCHANGED otherVars

\* the 'Switch Network' button of updateUI, line 216
EnsureCorrectNetwork ==
    /\ ens["ui"].pc \in {"idle", "done"}
    /\ op' = "ensureCorrectNetwork"
    /\ ens' = [ens EXCEPT !["ui"] = EnsureBegin]
    /\ UNCHANGED <<isConnected, currentAccount, provider, chainId, initPc,
                   chainReq, conn, lastToast>>
    /\ UNCHANGED envVars
    /\ UNCHANGED mintVars
    /\ UNCHANGED otherVars

\* ensureCorrectNetwork after eth_chainId, lines 120-129 and 144-152; with
\* provider null the switch request throws inside the try block
EnsureChain(w) ==
    /\ ens[w].pc = "chain"
    /\ op' = "ensureCorrectNetwork"
    /\ LET e == [ens[w] EXCEPT !.seen = walletChain]
       IN IF walletChain = TargetChain
          THEN EnsureReturn(w, e, "true", null)
          ELSE IF provider = null
          THEN EnsureReturn(w, e, "false",
                            "Please switch to Polygon Amoy testnet manually.")
          ELSE /\ ens' = [ens EXCEPT ![w] =
                            [e EXCEPT !.pc = "switch",
                                      !.requests = Append(@, "wallet_switchEthereumChain")]]
               /\ UNCHANGED <<conn, lastToast>>
    /\ UNCHANGED <<isConnected, currentAccount, provider, chainId, initPc, chainReq>>
    /\ UNCHANGED envVars
    /\ UNCHANGED mintVars
    /\ UNCHANGED otherVars

\* mutant: no error code is taken to mean that the wallet lacks the chain
UnrecognizedChain_None == "no such code"

\* line 132: switchError.code === 4902
UnrecognizedChain == "4902"

\* ensureCorrectNetwork after wallet_switchEthereumChain, lines 125-148;
\* answer is "ok", the code of the error, or "error" for an error without one
EnsureSwitch(w, answer) ==
    /\ ens[w].pc = "switch"
    /\ op' = "ensureCorrectNetwork"
    /\ LET e == [ens[w] EXCEPT !.switchAnswer = answer]
       IN IF answer = "ok"
          THEN EnsureReturn(w, e, "true", null)
          ELSE IF answer = UnrecognizedChain
          THEN IF provider = null
               THEN EnsureReturn(w, e, "false",
                       "Failed to add Polygon Amoy network. Please add it manually.")
               ELSE /\ ens' = [ens EXCEPT ![w] =
                                 [e EXCEPT !.pc = "add",
                                           !.requests = Append(@, "wallet_addEthereumChain")]]
                    /\ UNCHANGED <<conn, lastToast>>
          ELSE EnsureReturn(w, e, "false",
                            "Please switch to Polygon Amoy testnet manually.")
    /\ UNCHANGED <<isConnected, currentAccount, provider, chainId, initPc, chainReq>>
    /\ UNCHANGED envVars
    /\ UNCHANGED mintVars
    /\ UNCHANGED otherVars

\* ensureCorrectNetwork after wallet_addEthereumChain, lines 134-143
EnsureAdd(w, ok) ==
    /\ ens[w].pc = "add"
    /\ op' = "ensureCorrectNetwork"
    /\ IF ok
       THEN EnsureReturn(w, ens[w], "true", null)
       ELSE EnsureReturn(w, ens[w], "false",
               "Failed to add Polygon Amoy network. Please add it manually.")
    /\ UNCHANGED <<isConnected, currentAccount, provider, chainId, initPc, chainReq>>
    /\ UNCHANGED envVars
    /\ UNCHANGED mintVars
    /\ UNCHANGED otherVars

\* ------------------------------------------------------------ NFTMinting

\* the toast of the catch of waitForTransactionConfirmation, line 569:
\* `Transaction may have failed: ${error.message}`
ConfirmationErrorToast(message) == "Transaction may have failed: " \o message

\* the toasts MandalaApp.showToast displays with type 'error'
ErrorToasts ==
    {"Please connect your wallet first",
     "You can only mint NFTs for your own wallet address",
     "Failed to prepare minting transaction",
     "Transaction failed: No wallet connected",
     "Transaction rejected by user",
     "Transaction failed: wallet error",
     ConfirmationErrorToast("Transaction failed"),
     ConfirmationErrorToast("Transaction timeout"),
     ConfirmationErrorToast("fetch error")}

SetAtt(i, r) == att' = [att EXCEPT ![i] = r]

\* setMintingState, lines 627-639: with false only the class list changes
setMintingState(minting) ==
    IF minting
    THEN [text |-> "Minting...", disabled |-> TRUE]
    ELSE mintButton

\* mutant: the flag is not reset
MintFinally_Stuck == UNCHANGED isMinting

\* the finally block of mintNFT, lines 439-442
MintFinally == isMinting' = FALSE

\* mutant: the error is displayed and the attempt goes on
MintCatch_GoesOn(i, message) ==
    /\ SetAtt(i, [att[i] EXCEPT !.pc = "confirm", !.error = message,
                                !.errToast = TRUE])
    /\ lastToast' = message
    /\ UNCHANGED isMinting

\* mutant: the error is displayed and a status poll is scheduled
MintCatch_Polls(i, message) ==
    /\ SetAtt(i, [att[i] EXCEPT !.pc = "wait", !.error = message,
                                !.errToast = TRUE])
    /\ lastToast' = message
    /\ MintFinally

\* the catch block of mintNFT followed by its finally block, lines 436-442
MintCatch(i, message) ==
    /\ SetAtt(i, [att[i] EXCEPT !.pc = "failed", !.error = message,
                                !.errToast = TRUE])
    /\ lastToast' = message
    /\ MintFinally

\* mutant: the guard of line 383 is missing
AlreadyMinting_Never == FALSE

\* line 383: if (this.isMinting) return
AlreadyMinting == isMinting

\* mintNFT up to its first await, lines 382-410
MintNFT(traderAddress) ==
    /\ calls < MaxCalls
    /\ calls' = calls + 1
    /\ IF AlreadyMinting
       THEN UNCHANGED <<isMinting, att, nAtt, lastToast, mintButton>>
       ELSE IF ~isWalletConnected
       THEN /\ lastToast' = "Please connect your wallet first"
            /\ UNCHANGED <<isMinting, att, nAtt, mintButton>>
       ELSE IF ~canUserMint(traderAddress)
       THEN /\ lastToast' = "You can only mint NFTs for your own wallet address"
            /\ UNCHANGED <<isMinting, att, nAtt, mintButton>>
       ELSE /\ nAtt < MaxMints
            /\ isMinting' = TRUE
            /\ mintButton' = setMintingState(TRUE)
            /\ nAtt' = nAtt + 1
            /\ SetAtt(nAtt + 1, [NoAttempt EXCEPT !.pc = "prepare",
                                                  !.trader = traderAddress])
            /\ UNCHANGED lastToast
    /\ UNCHANGED sessionVars
    /\ UNCHANGED envVars
    /\ UNCHANGED otherVars

\* mintNFT after POST /nft/prepare-mint, lines 412-419; ok is FALSE for a
\* rejected fetch, an unparsable body and a body with success false
PrepareResponse(i, ok) ==
    /\ att[i].pc = "prepare"
    /\ IF ok
       THEN /\ SetAtt(i, [att[i] EXCEPT !.pc = "confirm",
                                        !.transaction = PreparedTransaction(i)])
            /\ UNCHANGED <<isMinting, lastToast>>
       ELSE MintCatch(i, "Failed to prepare minting transaction")
    /\ UNCHANGED <<nAtt, calls, mintButton>>
    /\ UNCHANGED sessionVars
    /\ UNCHANGED envVars
    /\ UNCHANGED otherVars

\* mutant: the prepared transaction is left out
txData_FromOnly(transactionData, from) ==
    [transaction |-> null, from |-> from]

\* lines 500-503: txData = {...transactionData, from: accounts[0]}
txData(transactionData, from) ==
    [transaction |-> transactionData, from |-> from]

\* the user answers the confirmation dialog (showMintConfirmation, lines
\* 445-488); on accept executeTransaction runs up to its await of
\* eth_accounts, lines 490-495; on decline lines 420-424 and the finally
ConfirmDialog(i, confirmed) ==
    /\ att[i].pc = "confirm"
    /\ IF confirmed
       THEN /\ SetAtt(i, [att[i] EXCEPT !.pc = "accounts", !.accepted = TRUE])
            /\ UNCHANGED isMinting
       ELSE /\ SetAtt(i, [att[i] EXCEPT !.pc = "declined"])
            /\ MintFinally
    /\ UNCHANGED <<nAtt, calls, lastToast, mintButton>>
    /\ UNCHANGED sessionVars
    /\ UNCHANGED envVars
    /\ UNCHANGED otherVars

\* executeTransaction after eth_accounts, lines 495-508: the transaction is
\* handed to the wallet with from = accounts[0]; ok is FALSE when the
\* eth_accounts request itself was rejected (lines 511-517)
ExecuteTransaction(i, ok) ==
    /\ att[i].pc = "accounts"
    /\ IF ~ok
       THEN MintCatch(i, "Transaction failed: wallet error")
       ELSE IF Len(walletAccounts) = 0
       THEN MintCatch(i, "Transaction failed: No wallet connected")
       ELSE /\ SetAtt(i, [att[i] EXCEPT
                             !.pc = "sign",
                             !.from = walletAccounts[1],
                             !.sent = Append(@, txData(att[i].transaction,
                                                       walletAccounts[1]))])
            /\ UNCHANGED <<isMinting, lastToast>>
    /\ UNCHANGED <<nAtt, calls, mintButton>>
    /\ UNCHANGED sessionVars
    /\ UNCHANGED envVars
    /\ UNCHANGED otherVars

\* mutants: the comparison is off by one; the ceiling is not checked
AttemptsRemain_OffByOne(attempts) == attempts <= maxAttempts

AttemptsRemain_Always(attempts) == TRUE

\* lines 549 and 557: attempts < maxAttempts
AttemptsRemain(attempts) == attempts < maxAttempts

\* the wallet answers eth_sendTransaction: a hash (lines 510, 429-433, then
\* waitForTransactionConfirmation up to the first fetch, lines 520-539), the
\* user's rejection (code 4001) or another error (lines 511-517)
SendResponse(i, answer) ==
    /\ att[i].pc = "sign"
    /\ IF answer \in Hashes
       THEN /\ SetAtt(i, [att[i] EXCEPT !.pc = "poll", !.hash = answer,
                                        !.attempts = 1, !.awaited = TRUE])
            /\ lastToast' = "Transaction submitted! Waiting for confirmation..."
            /\ UNCHANGED isMinting
       ELSE IF answer = "4001"
       THEN MintCatch(i, "Transaction rejected by user")
       ELSE MintCatch(i, "Transaction failed: wallet error")
    /\ UNCHANGED <<nAtt, calls, mintButton>>
    /\ UNCHANGED sessionVars
    /\ UNCHANGED envVars
    /\ UNCHANGED otherVars

\* the error checkStatus throws for an answer, if any (lines 543-555);
\* null when it returns normally
StatusThrows(answer, attempts) ==
    CASE answer = "confirmed" -> null
      [] answer = "failed" -> "Transaction failed"
      [] answer = "pending" ->
            IF AttemptsRemain(attempts) THEN null ELSE "Transaction timeout"
      [] answer = "error" -> "fetch error"
      [] OTHER -> "Transaction timeout"

\* checkStatus after its fetch, lines 541-562, and, for the call that
\* waitForTransactionConfirmation awaits, what follows it: the catch of lines
\* 567-570 and the finally of mintNFT
StatusResponse(i, answer, token) ==
    /\ att[i].pc = "poll"
    /\ LET a == att[i]
           thrown == StatusThrows(answer, a.attempts)
           \* the catch of lines 556-562 rethrows
           rethrown == thrown # null /\ ~AttemptsRemain(a.attempts)
           next ==
               IF answer = "confirmed"
               THEN [a EXCEPT !.pc = "confirmed", !.tokenId = token]
               ELSE IF ~rethrown
               THEN [a EXCEPT !.pc = "wait"]
               ELSE [a EXCEPT !.pc = "rejected", !.error = thrown,
                              !.errToast = a.errToast \/ a.awaited]
       IN /\ token = 0 <=> answer # "confirmed"
          /\ SetAtt(i, [next EXCEPT !.awaited = FALSE, !.answer = answer,
                                    !.answerToken = token])
          /\ lastToast' =
                IF answer = "confirmed" THEN "NFT minted successfully!"
                ELSE IF rethrown /\ a.awaited THEN ConfirmationErrorToast(thrown)
                ELSE lastToast
          /\ IF a.awaited THEN MintFinally ELSE UNCHANGED isMinting
          \* onMintSuccess, lines 573-581
          /\ mintButton' =
                IF answer = "confirmed"
                THEN [text |-> "Minted!", disabled |-> TRUE]
                ELSE mintButton
    /\ UNCHANGED <<nAtt, calls>>
    /\ UNCHANGED sessionVars
    /\ UNCHANGED envVars
    /\ UNCHANGED otherVars

\* mutant: the timer fires and checkStatus is not run
PollTimer_Lost(i) ==
    /\ att[i].pc = "wait"
    /\ UNCHANGED vars

\* the timer of setTimeout(checkStatus, 5000) fires: checkStatus up to its
\* fetch, lines 526-539
PollTimer(i) ==
    /\ att[i].pc = "wait"
    /\ SetAtt(i, [att[i] EXCEPT !.pc = "poll", !.attempts = @ + 1,
                                !.answer = null, !.answerToken = 0,
                                !.priorPending = @ /\ att[i].answer = "pending"])
    /\ UNCHANGED <<isMinting, nAtt, calls, lastToast, mintButton>>
    /\ UNCHANGED sessionVars
    /\ UNCHANGED envVars
    /\ UNCHANGED otherVars

\* mutant: the wallet is looked at before the mint status
updateMintButton_WalletFirst(traderAddress, hasAlreadyMinted) ==
    IF ~isWalletConnected
    THEN [text |-> "Connect Wallet to Mint", disabled |-> TRUE]
    ELSE IF hasAlreadyMinted
    THEN [text |-> "Already Minted", disabled |-> TRUE]
    ELSE IF ~canUserMint(traderAddress)
    THEN [text |-> "Can Only Mint Your Own", disabled |-> TRUE]
    ELSE [text |-> "Mint NFT", disabled |-> FALSE]

\* updateMintButton, lines 347-380: the button it leaves
updateMintButton(traderAddress, hasAlreadyMinted) ==
    LET canMint == canUserMint(traderAddress)
    IN IF hasAlreadyMinted
       THEN [text |-> "Already Minted", disabled |-> TRUE]
       ELSE IF ~isWalletConnected
       THEN [text |-> "Connect Wallet to Mint", disabled |-> TRUE]
       ELSE IF ~canMint
       THEN [text |-> "Can Only Mint Your Own", disabled |-> TRUE]
       ELSE [text |-> "Mint NFT", disabled |-> FALSE]

\* mutant: checkMintStatus has no early return
NothingToCheck_Never(traderAddress) == FALSE

\* line 334: !this.contractAddress || !traderAddress
NothingToCheck(traderAddress) ==
    contractAddress = null \/ traderAddress = NoAccount

\* checkMintStatus up to its fetch, lines 333-338; it is called for the
\* address of each generated mandala (line 329) and, two seconds after a
\* mint, for the connected account (lines 586-590)
CheckMintStatus(traderAddress) ==
    /\ nFetch < MaxFetches
    /\ IF NothingToCheck(traderAddress)
       THEN /\ UNCHANGED <<fetches, nFetch>>
            /\ lastCheck' = [called |-> TRUE, trader |-> traderAddress,
                             requests |-> 0]
       ELSE /\ nFetch' = nFetch + 1
            /\ fetches' = [fetches EXCEPT ![nFetch + 1] =
                              [NoFetch EXCEPT !.pc = "pending",
                                              !.trader = traderAddress]]
            /\ lastCheck' = [called |-> TRUE, trader |-> traderAddress,
                             requests |-> 1]
    /\ UNCHANGED <<contractAddress, status, lastToast>>
    /\ UNCHANGED sessionVars
    /\ UNCHANGED envVars
    /\ UNCHANGED mintVars
    /\ UNCHANGED <<cmVars, contractVars, helperVars>>

\* checkMintStatus after its fetch, lines 338-344
MintStatusResponse(i, answer) ==
    /\ fetches[i].pc = "pending"
    /\ IF answer = "error"
       THEN /\ fetches' = [fetches EXCEPT ![i] =
                              [@ EXCEPT !.pc = "failed", !.answer = answer]]
            /\ UNCHANGED <<mintButton, status>>
       ELSE /\ fetches' = [fetches EXCEPT ![i] =
                              [@ EXCEPT !.pc = "answered", !.answer = answer]]
            /\ mintButton' = updateMintButton(fetches[i].trader, answer = "minted")
            /\ status' = [status EXCEPT ![toLowerCase(fetches[i].trader)] = answer]
    /\ UNCHANGED <<contractAddress, nFetch, lastCheck, lastToast>>
    /\ UNCHANGED sessionVars
    /\ UNCHANGED envVars
    /\ UNCHANGED <<isMinting, att, nAtt, calls>>
    /\ UNCHANGED <<cmVars, contractVars, helperVars>>

\* ------------------------------------------- MandalaApp address helpers

\* the character class [a-fA-F0-9]
HexDigits ==
    {"0", "1", "2", "3", "4", "5", "6", "7", "8", "9",
     "a", "b", "c", "d", "e", "f", "A", "B", "C", "D", "E", "F"}

\* the quantifier {40} of the pattern
HexLength == 40

\* ToString of the argument of RegExp.prototype.test
JsToString(v) == IF v.isNull THEN <<"n", "u", "l", "l">> ELSE v.chars

\* the pattern from "0x" on, tried at position 1 of s (the ^ of a pattern
\* without the m flag): the position after "0x" and HexLength characters of
\* the class, or 0 when they are not there
MatchPrefixAndDigits(s) ==
    IF /\ Len(s) >= 2 + HexLength
       /\ s[1] = "0"
       /\ s[2] = "x"
       /\ \A k \in 3..(2 + HexLength) : s[k] \in HexDigits
    THEN 3 + HexLength
    ELSE 0

\* mutant: the pattern has no $
isValidAddress_Unanchored(address) ==
    MatchPrefixAndDigits(JsToString(address)) # 0

\* MandalaApp.isValidAddress, app.js lines 89-91:
\* /^0x[a-fA-F0-9]{40}$/.test(address); the $ of a pattern without the m flag
\* matches at the end of the input only
isValidAddress(address) ==
    LET s == JsToString(address)
        after == MatchPrefixAndDigits(s)
    IN after # 0 /\ after = Len(s) + 1

\* String.prototype.slice(start, end) on a string of characters
slice(s, start, end) ==
    LET len == Len(s)
        from == IF start < 0
                THEN (IF len + start < 0 THEN 0 ELSE len + start)
                ELSE (IF start > len THEN len ELSE start)
        to == IF end < 0
              THEN (IF len + end < 0 THEN 0 ELSE len + end)
              ELSE (IF end > len THEN len ELSE end)
    IN SubSeq(s, from + 1, to)

\* !address
Falsy(v) == v.isNull \/ v.chars = << >>

\* the template literal of both formatters:
\* `${address.slice(0, 6)}...${address.slice(-4)}`
Shortened(s) ==
    slice(s, 0, 6) \o <<".", ".", ".">> \o slice(s, 0 - 4, Len(s))

\* MandalaApp.formatAddress, app.js lines 93-96
MandalaApp_formatAddress(address) ==
    IF Falsy(address) \/ Len(address.chars) < 10
    THEN address
    ELSE Str(Shortened(address.chars))

\* WalletConnection.formatAddress, wallet-connection.js lines 239-242, the
\* formatter of the connect button and the wallet status (lines 179, 194)
formatAddress(address) ==
    IF Falsy(address)
    THEN Str(<< >>)
    ELSE Str(Shortened(address.chars))

\* the address the specification of the program gives as its example
ExampleAddress ==
    <<"0", "x", "1", "2", "3", "4", "5", "6", "7", "8", "9", "0",
      "a", "b", "c", "d", "e", "f", "1", "2", "3", "4", "5", "6", "7", "8", "9", "0",
      "a", "b", "c", "d", "e", "f", "1", "2", "3", "4", "5", "6", "7", "8">>

\* strings of up to MaxShort characters
ShortStrings == {SubSeq(ExampleAddress, 1, n) : n \in 0..MaxShort}

\* strings that are an address or nearly one: lead and trail surround it,
\* prefix stands where "0x" should, and of the n characters that follow all
\* are fill but the k-th, which is c
AddressLike(lead, prefix, n, fill, k, c, trail) ==
    lead \o prefix \o [i \in 1..n |-> IF i = k THEN c ELSE fill] \o trail

Surroundings == {<< >>, <<" ">>, <<"\n">>}
Prefixes == {<<"0", "x">>, <<"0", "X">>, <<"1", "x">>, <<"x">>, << >>}
OddCharacters == {"9", "f", "A", "g", "G", " ", "x", "\n"}

AddressLikeStrings ==
    {AddressLike(lead, prefix, n, fill, k, c, trail) :
        lead \in Surroundings, prefix \in Prefixes,
        n \in {0, HexLength - 1, HexLength, HexLength + 1},
        fill \in {"0", "a", "F"}, k \in {1, 20, HexLength},
        c \in OddCharacters, trail \in Surroundings}

\* the values the helpers are applied to
AddressInputs ==
    {JsNull} \cup {Str(s) : s \in ShortStrings \cup AddressLikeStrings \cup {ExampleAddress}}

\* MandalaApp.isValidAddress is applied to the input
IsValidAddressCall ==
    /\ valid' = Returned(isValidAddress(addressArg))
    /\ UNCHANGED <<addressArg, formatted, shown>>
    /\ UNCHANGED <<envVars, sessionVars, mintVars, lastToast, cmVars, uiVars>>
    /\ UNCHANGED contractVars

\* MandalaApp.formatAddress is applied to the input
FormatAddressCall ==
    /\ formatted' = Returned(MandalaApp_formatAddress(addressArg))
    /\ UNCHANGED <<addressArg, valid, shown>>
    /\ UNCHANGED <<envVars, sessionVars, mintVars, lastToast, cmVars, uiVars>>
    /\ UNCHANGED contractVars

\* WalletConnection.formatAddress is applied to the input
SessionFormatAddressCall ==
    /\ shown' = Returned(formatAddress(addressArg))
    /\ UNCHANGED <<addressArg, valid, formatted>>
    /\ UNCHANGED <<envVars, sessionVars, mintVars, lastToast, cmVars, uiVars>>
    /\ UNCHANGED contractVars

\* ------------------------------------------------------ PortfolioMandala

\* what a revert of a mint call restores
Snapshot ==
    [tokenIdCounter |-> tokenIdCounter, traderToTokenId |-> traderToTokenId,
     hasMinted |-> hasMinted, tokenOwner |-> tokenOwner, mintLog |-> mintLog]

\* the caller whose onERC721Received is being executed, if any
Receiving == IF stack = << >> THEN ZeroAddress ELSE stack[Len(stack)].caller

\* the require statements of a mint entry point, lines 55 and 162, and the
\* modifier whenNotPaused of mintMandalaChecked, lines 151-154
MintReverts(trader, fn) ==
    \/ fn = "mintMandalaChecked" /\ mintingPaused
    \/ hasMinted[trader]

\* lines 66-70 and 173-177: the mappings are updated and the call returns
MintCompletes(trader, fn, tokenId) ==
    /\ traderToTokenId' = [traderToTokenId EXCEPT ![trader] = tokenId]
    /\ hasMinted' = [hasMinted EXCEPT ![trader] = TRUE]
    /\ mintLog' = [mintLog EXCEPT ![trader] = @ + 1]

\* mintMandala or mintMandalaChecked called by trader, lines 52-71 and
\* 159-178, in a transaction of its own or from the onERC721Received callback
\* that _safeMint (lines 60, 167) is executing in trader.  For a caller
\* without code the call runs to its end; for a contract it runs up to that
\* callback.
MintCall(trader, fn) ==
    /\ \/ stack = << >>
       \/ trader = Receiving /\ Len(stack) < MaxDepth
    /\ IF MintReverts(trader, fn)
       THEN /\ lastCall' = [caller |-> trader, fn |-> fn, step |-> "call",
                            outcome |-> "reverted"]
            /\ UNCHANGED <<storageVars, stack, mintLog>>
       ELSE /\ tokenIdCounter <= MaxTokens
            /\ tokenIdCounter' = tokenIdCounter + 1
            /\ tokenOwner' = [tokenOwner EXCEPT ![tokenIdCounter] = trader]
            /\ UNCHANGED mintingPaused
            /\ IF IsContract(trader)
               THEN /\ stack' = Append(stack, [caller |-> trader, fn |-> fn,
                                               tokenId |-> tokenIdCounter,
                                               before |-> Snapshot])
                    /\ lastCall' = [caller |-> trader, fn |-> fn, step |-> "call",
                                    outcome |-> "callback"]
                    /\ UNCHANGED <<traderToTokenId, hasMinted, mintLog>>
               ELSE /\ MintCompletes(trader, fn, tokenIdCounter)
                    /\ lastCall' = [caller |-> trader, fn |-> fn, step |-> "call",
                                    outcome |-> "succeeded"]
                    /\ UNCHANGED stack
    /\ UNCHANGED pageVars

\* onERC721Received returns its selector: _safeMint returns and the mint call
\* that waited for it goes on to its end, lines 62-70 and 169-177
ReceiverAccepts ==
    /\ stack # << >>
    /\ LET f == stack[Len(stack)]
       IN /\ MintCompletes(f.caller, f.fn, f.tokenId)
          /\ lastCall' = [caller |-> f.caller, fn |-> f.fn, step |-> "return",
                          outcome |-> "succeeded"]
    /\ stack' = SubSeq(stack, 1, Len(stack) - 1)
    /\ UNCHANGED <<tokenIdCounter, mintingPaused, tokenOwner>>
    /\ UNCHANGED pageVars

\* onERC721Received reverts or returns another value: _safeMint reverts and
\* with it the mint call that waited for it
ReceiverRejects ==
    /\ stack # << >>
    /\ LET f == stack[Len(stack)]
       IN /\ tokenIdCounter' = f.before.tokenIdCounter
          /\ traderToTokenId' = f.before.traderToTokenId
          /\ hasMinted' = f.before.hasMinted
          /\ tokenOwner' = f.before.tokenOwner
          /\ mintLog' = f.before.mintLog
          /\ lastCall' = [caller |-> f.caller, fn |-> f.fn, step |-> "return",
                          outcome |-> "reverted"]
    /\ stack' = SubSeq(stack, 1, Len(stack) - 1)
    /\ UNCHANGED mintingPaused
    /\ UNCHANGED pageVars

\* pauseMinting and unpauseMinting, lines 143-149, with the modifier onlyOwner
SetPaused(caller, paused) ==
    /\ stack = << >>
    /\ IF caller = Deployer
       THEN /\ mintingPaused' = paused
            /\ lastCall' = [caller |-> caller,
                            fn |-> (IF paused THEN "pauseMinting" ELSE "unpauseMinting"),
                            step |-> "call", outcome |-> "succeeded"]
       ELSE /\ UNCHANGED mintingPaused
            /\ lastCall' = [caller |-> caller,
                            fn |-> (IF paused THEN "pauseMinting" ELSE "unpauseMinting"),
                            step |-> "call", outcome |-> "reverted"]
    /\ UNCHANGED <<tokenIdCounter, traderToTokenId, hasMinted, tokenOwner,
                   stack, mintLog>>
    /\ UNCHANGED pageVars

\* getTraderTokenId, lines 83-86: the call reverts on its require or returns
\* the entry of the mapping
getTraderTokenId(trader) ==
    IF ~hasMinted[trader]
    THEN [reverted |-> TRUE, value |-> 0]
    ELSE [reverted |-> FALSE, value |-> traderToTokenId[trader]]

\* mutant: the counter is returned as it is
totalSupply_Counter == tokenIdCounter

\* totalSupply, lines 98-100
totalSupply == tokenIdCounter - 1

\* ------------------------------------------------------ specifications

WalletAnswers == {<< >>} \cup {<<a>> : a \in WalletAccounts}

\* a mintNFT call that would start an attempt after an earlier one
StartsAnother(traderAddress) ==
    nAtt > 0 /\ ~isMinting /\ canUserMint(traderAddress)

\* Spec: the session with every wallet event, and one mint attempt per page
\* load followed through its first MaxPolls polls
Next ==
    \/ InitAccounts
    \/ InitChain
    \/ DisconnectWallet
    \/ HandleDisconnect
    \/ \E accounts \in WalletAnswers : AccountsChanged(accounts)
    \/ AccountsChangedResume
    \/ \E c \in Chains : ChainChanged(c)
    \/ \E t \in Traders : ~StartsAnother(t) /\ MintNFT(t)
    \/ \E ok \in BOOLEAN : PrepareResponse(1, ok)
    \/ \E confirmed \in BOOLEAN : ConfirmDialog(1, confirmed)
    \/ \E ok \in BOOLEAN : ExecuteTransaction(1, ok)
    \/ \E answer \in Hashes \cup {"4001", "error"} : SendResponse(1, answer)
    \/ \E answer \in StatusAnswers, token \in TokenIds \cup {0} :
          StatusResponse(1, answer, token)
    \/ att[1].attempts < MaxPolls /\ PollTimer(1)

Spec == Init /\ [][Next]_vars

\* SpecOverlap: up to MaxMints attempts on one page whose wallet is left
\* alone, each followed through its first MaxPolls polls
NextOverlap ==
    \/ InitAccounts
    \/ InitChain
    \/ \E t \in Traders : MintNFT(t)
    \/ \E i \in 1..MaxMints, ok \in BOOLEAN : PrepareResponse(i, ok)
    \/ \E i \in 1..MaxMints, confirmed \in BOOLEAN : ConfirmDialog(i, confirmed)
    \/ \E i \in 1..MaxMints, ok \in BOOLEAN : ExecuteTransaction(i, ok)
    \/ \E i \in 1..MaxMints, answer \in {"h1", "4001", "error"} :
          SendResponse(i, answer)
    \/ \E i \in 1..MaxMints, answer \in StatusAnswers, token \in {0, 1} :
          StatusResponse(i, answer, token)
    \/ \E i \in 1..MaxMints : att[i].attempts < MaxPolls /\ PollTimer(i)

SpecOverlap == Init /\ [][NextOverlap]_vars

\* SpecPoll: one attempt on a page whose wallet is left alone, followed
\* through every poll up to the ceiling
NextPoll ==
    \/ InitAccounts
    \/ InitChain
    \/ \E t \in Traders : ~StartsAnother(t) /\ MintNFT(t)
    \/ \E ok \in BOOLEAN : PrepareResponse(1, ok)
    \/ \E confirmed \in BOOLEAN : ConfirmDialog(1, confirmed)
    \/ \E ok \in BOOLEAN : ExecuteTransaction(1, ok)
    \/ \E answer \in Hashes \cup {"4001", "error"} : SendResponse(1, answer)
    \/ \E answer \in StatusAnswers, token \in TokenIds \cup {0} :
          StatusResponse(1, answer, token)
    \/ PollTimer(1)

SpecPoll == Init /\ [][NextPoll]_vars

\* SpecPollFair: SpecPoll where the user answers the confirmation dialog,
\* every request to the server and to the wallet is answered or fails, and
\* every timer that was set fires
FairPoll ==
    /\ WF_vars(\E ok \in BOOLEAN : PrepareResponse(1, ok))
    /\ WF_vars(\E confirmed \in BOOLEAN : ConfirmDialog(1, confirmed))
    /\ WF_vars(\E ok \in BOOLEAN : ExecuteTransaction(1, ok))
    /\ WF_vars(\E answer \in Hashes \cup {"4001", "error"} : SendResponse(1, answer))
    /\ WF_vars(\E answer \in StatusAnswers, token \in TokenIds \cup {0} :
                  StatusResponse(1, answer, token))
    /\ WF_vars(PollTimer(1))

SpecPollFair == Init /\ [][NextPoll]_vars /\ FairPoll

\* answers of the wallet to eth_requestAccounts
AccessAnswers ==
    {Grant(accounts) : accounts \in WalletAnswers} \cup
    {Refuse(error) : error \in AccessErrors}
SwitchAnswers == {"ok", "4902", "error"}

\* SpecSession: the wallet session alone, with every handler of it and every
\* wallet event at any moment
NextSession ==
    \/ InitAccounts
    \/ InitChain
    \/ \E answer \in {Grant(<<AcctLower>>), Refuse("4001")} : ConnectWallet(answer)
    \/ ConnectResponse
    \/ ConnectChain
    \/ EnsureChain("connect")
    \/ \E answer \in SwitchAnswers : EnsureSwitch("connect", answer)
    \/ \E ok \in BOOLEAN : EnsureAdd("connect", ok)
    \/ DisconnectWallet
    \/ HandleDisconnect
    \/ \E accounts \in WalletAnswers : AccountsChanged(accounts)
    \/ AccountsChangedResume
    \/ \E c \in Chains : ChainChanged(c)

SpecSession == Init /\ [][NextSession]_vars

\* no connectWallet and no ensureCorrectNetwork invocation is under way
Quiet ==
    /\ conn.pc \in {"idle", "done"}
    /\ \A w \in Callers : ens[w].pc \in {"idle", "done"}

\* SpecConnect: the wallet session alone, where the user disconnects and the
\* wallet changes network or drops the connection only between the
\* invocations of connectWallet and ensureCorrectNetwork, and exposes no
\* other accounts than those it grants
NextConnect ==
    \/ InitAccounts
    \/ InitChain
    \/ \E answer \in AccessAnswers : ConnectWallet(answer)
    \/ ConnectResponse
    \/ ConnectChain
    \/ EnsureCorrectNetwork
    \/ \E w \in Callers : EnsureChain(w)
    \/ \E w \in Callers, answer \in SwitchAnswers : EnsureSwitch(w, answer)
    \/ \E w \in Callers, ok \in BOOLEAN : EnsureAdd(w, ok)
    \/ Quiet /\ DisconnectWallet
    \/ Quiet /\ HandleDisconnect
    \/ \E c \in Chains : Quiet /\ ChainChanged(c)

SpecConnect == Init /\ [][NextConnect]_vars

\* SpecStatus: the mint status and the mint button, on a page with or without
\* a configured contract whose wallet changes accounts
InitStatus ==
    \E address \in {null, ConfiguredAddress} : Constructed(address) /\ NoHelperInput

NextStatus ==
    \/ InitAccounts
    \/ InitChain
    \/ DisconnectWallet
    \/ \E accounts \in WalletAnswers : AccountsChanged(accounts)
    \/ AccountsChangedResume
    \/ \E t \in Traders \cup {NoAccount} : CheckMintStatus(t)
    \/ \E i \in 1..MaxFetches, answer \in MintStatusAnswers :
          MintStatusResponse(i, answer)

SpecStatus == InitStatus /\ [][NextStatus]_vars

\* SpecMintStatus: the mint status and one mint attempt, followed until the
\* wallet has answered the transaction, on a page whose wallet changes
\* accounts
NextMintStatus ==
    \/ InitAccounts
    \/ InitChain
    \/ \E accounts \in WalletAnswers : AccountsChanged(accounts)
    \/ AccountsChangedResume
    \/ \E t \in Traders : CheckMintStatus(t)
    \/ \E i \in 1..MaxFetches, answer \in {"minted", "open"} :
          MintStatusResponse(i, answer)
    \/ \E t \in Traders : ~StartsAnother(t) /\ MintNFT(t)
    \/ PrepareResponse(1, TRUE)
    \/ ConfirmDialog(1, TRUE)
    \/ ExecuteTransaction(1, TRUE)
    \/ \E answer \in {"h1", "4001"} : SendResponse(1, answer)

SpecMintStatus == Init /\ [][NextMintStatus]_vars

\* SpecContract: the contract alone, called by externally owned accounts and
\* by a contract whose callback may call it again
InitContract ==
    /\ Init
    /\ ~hasEthereum
    /\ walletAccounts = << >>
    /\ walletChain = TargetChain

NextContract ==
    \/ \E a \in Addresses, fn \in MintFunctions : MintCall(a, fn)
    \/ ReceiverAccepts
    \/ ReceiverRejects
    \/ \E a \in Addresses, paused \in BOOLEAN : SetPaused(a, paused)

SpecContract == InitContract /\ [][NextContract]_vars

\* SpecCanMint: canUserMint applied to every combination of the three
\* session fields it reads and every spelling of the target account
InitCanMint ==
    /\ hasEthereum = TRUE
    /\ walletAccounts = << >>
    /\ walletChain = TargetChain
    /\ isConnected \in BOOLEAN
    /\ currentAccount \in Spellings \cup {NoAccount}
    /\ chainId \in Chains \cup {null}
    /\ provider = "ethereum"
    /\ initPc = "ready"
    /\ chainReq = 0
    /\ isMinting = FALSE
    /\ att = [i \in 1..MaxMints |-> NoAttempt]
    /\ nAtt = 0
    /\ calls = 0
    /\ lastToast = null
    /\ cmArg = NoAccount
    /\ cmResult = FALSE
    /\ conn = NoConnect
    /\ ens = [w \in Callers |-> NoEnsure]
    /\ op = "none"
    /\ contractAddress = ConfiguredAddress
    /\ mintButton = NoButton
    /\ fetches = [i \in 1..MaxFetches |-> NoFetch]
    /\ nFetch = 0
    /\ lastCheck = NoCheck
    /\ status = [a \in StatusAccounts |-> "none"]
    /\ ContractInit
    /\ NoHelperInput

CanUserMintCall(traderAddress) ==
    /\ cmArg' = traderAddress
    /\ cmResult' = canUserMint(traderAddress)
    /\ UNCHANGED sessionVars
    /\ UNCHANGED envVars
    /\ UNCHANGED mintVars
    /\ UNCHANGED lastToast
    /\ UNCHANGED <<uiVars, contractVars, helperVars>>

NextCanMint == \E t \in Spellings : CanUserMintCall(t)

SpecCanMint == InitCanMint /\ [][NextCanMint]_vars

\* SpecAddress: the address helpers applied to one input, drawn from the
\* sample of strings and null
InitAddress ==
    /\ Constructed(ConfiguredAddress)
    /\ ~hasEthereum
    /\ walletAccounts = << >>
    /\ walletChain = TargetChain
    /\ addressArg \in AddressInputs
    /\ NoHelperCalled

NextAddress ==
    \/ IsValidAddressCall
    \/ FormatAddressCall
    \/ SessionFormatAddressCall

SpecAddress == InitAddress /\ [][NextAddress]_vars

\* ----------------------------------------------------------------- claims

AttemptIds == 1..MaxMints

\* the attempt has started and has not ended
InFlight(i) == att[i].pc \in {"prepare", "confirm", "accounts", "sign", "poll", "wait"}

\* two characters are the same letter, whatever their case
SameLetter(c, d) ==
    \/ c = d
    \/ {c, d} \in {{"a", "A"}, {"b", "B"}, {"c", "C"}, {"d", "D"}}

EqualIgnoringCase(a, b) ==
    /\ Len(a) = Len(b)
    /\ Len(a) > 0
    /\ \A k \in 1..Len(a) : SameLetter(a[k], b[k])

\* the session authorizes a mint for target: connected, same account up to
\* letter case, on the target chain
SessionAllows(target) ==
    /\ isConnected
    /\ EqualIgnoringCase(currentAccount, target)
    /\ chainId = TargetChain

\* a step that is an invocation of mintNFT
MintCallStep == calls' = calls + 1

\* C1: a mintNFT call made while isMinting is true changes nothing: no attempt
\* is started (no prepare-mint request), no toast is shown, isMinting, the
\* attempts, the session and the wallet stay as they were.
C1_BusyCallChangesNothing ==
    [][(MintCallStep /\ isMinting) =>
          UNCHANGED <<isMinting, att, nAtt, lastToast, sessionVars, envVars>>]_vars

\* two calls were made, one started the attempt that is still preparing and no
\* toast was shown, so the other call met isMinting true
C1_Witness ==
    /\ calls = 2
    /\ nAtt = 1
    /\ isMinting
    /\ att[1].pc = "prepare"
    /\ lastToast = null

\* C2: at most one mint attempt is in flight on a page at any time.
C2_OneAttemptInFlight ==
    Cardinality({i \in AttemptIds : InFlight(i)}) <= 1

\* C3: when a transaction is handed to the wallet for a mint of traderAddress
\* (eth_sendTransaction), canUserMint(traderAddress) is true at that moment.
C3_SendOnlyWhenCanMint ==
    [][\A i \in AttemptIds :
          (att[i].pc = "accounts" /\ att'[i].pc = "sign") =>
             canUserMint(att[i].trader)]_vars

\* C4: a mintNFT call leaves isMinting and the attempts as they were (no
\* prepare-mint request, no wallet request) unless the session is connected,
\* on the target chain, with the account the call names.
C4_NoAttemptWithoutAuthorization ==
    [][MintCallStep =>
          \/ UNCHANGED <<isMinting, att, nAtt>>
          \/ /\ nAtt' = nAtt + 1
             /\ SessionAllows(att'[nAtt'].trader)]_vars

\* a call was refused for a session that is connected but not allowed to mint
C4_Witness ==
    /\ calls = 1
    /\ nAtt = 0
    /\ ~isMinting
    /\ isConnected
    /\ lastToast = "You can only mint NFTs for your own wallet address"

\* C5: an attempt polls at most 60 times; when polls 1-59 are answered
\* pending and poll 60 confirmed, it ends confirmed with the token id of that
\* answer; when all 60 are answered pending it ends with the timeout error.
C5_PollCeiling ==
    \A i \in AttemptIds :
       LET a == att[i]
       IN /\ a.attempts <= 60
          /\ (a.attempts = 60 /\ a.priorPending /\ a.answer = "confirmed") =>
                (a.pc = "confirmed" /\ a.tokenId = a.answerToken)
          /\ (a.attempts = 60 /\ a.priorPending /\ a.answer = "pending") =>
                (a.pc = "rejected" /\ a.error = "Transaction timeout")

C5_Witness ==
    \E i \in AttemptIds :
       /\ att[i].attempts = 60
       /\ att[i].priorPending
       /\ att[i].pc = "confirmed"
       /\ att[i].tokenId = 2

\* C6: once the status endpoint has answered failed, the attempt has failed
\* and no further poll is scheduled or issued.
C6_FailedEndsPolling ==
    \A i \in AttemptIds :
       att[i].answer = "failed" =>
          (att[i].pc = "rejected" /\ att[i].error = "Transaction failed")

\* C7: a poll whose fetch fails counts as an attempt and does not end the
\* attempt while fewer than 60 polls were made (the next poll is scheduled);
\* at the 60th it ends it; there are never more than 60 polls.
C7_FetchErrorCountsAsAttempt ==
    \A i \in AttemptIds :
       /\ att[i].attempts <= 60
       /\ att[i].answer = "error" =>
             att[i].pc = (IF att[i].attempts < 60 THEN "wait" ELSE "rejected")

C7_Witness ==
    \E i \in AttemptIds :
       /\ att[i].answer = "error"
       /\ att[i].attempts = 59
       /\ att[i].pc = "wait"

\* C8: an attempt that has ended in failure has shown an error toast.
C8_FailureShowsError ==
    \A i \in AttemptIds :
       att[i].pc \in {"failed", "rejected"} => att[i].errToast

\* C9: declining the confirmation dialog ends the attempt with isMinting
\* false, without a toast, without a transaction handed to the wallet and
\* without a status poll, and nothing happens in the attempt afterwards.
C9_DeclineIsSilent ==
    [][\A i \in AttemptIds :
          /\ (att[i].pc = "confirm" /\ att'[i].pc = "declined") =>
                /\ ~isMinting'
                /\ lastToast' = lastToast
                /\ att'[i].from = NoAccount
                /\ att'[i].hash = null
                /\ att'[i].attempts = 0
                /\ ~att'[i].errToast
          /\ (att[i].pc = "declined" /\ att'[i] # att[i]) => nAtt' = 0]_vars

C9_Witness ==
    \E i \in AttemptIds : att[i].pc = "declined" /\ ~isMinting

\* C10: canUserMint(target) is true iff the session is connected, its account
\* equals target up to letter case and its chain is the target chain.
C10_CanMintIff ==
    cmArg # NoAccount =>
       (cmResult <=>
           /\ isConnected
           /\ EqualIgnoringCase(currentAccount, cmArg)
           /\ chainId = TargetChain)

\* true for an account spelled in another case
C10_Witness ==
    /\ cmResult
    /\ currentAccount # cmArg

\* C11: in every reachable state of the session, between the awaits of its
\* handlers included, the account is set iff the session is connected.
C11_AccountIffConnected == isConnected <=> currentAccount # NoAccount

\* connectWallet is awaiting the chain id inside handleAccountsChanged
C11_Witness ==
    /\ conn.pc = "chain"
    /\ isConnected
    /\ currentAccount = AcctLower
    /\ chainId = null

\* C12: a connectWallet call made while the session is disconnected, on a
\* host with a provider whose wallet grants the account-access request with a
\* non-empty list, ends with the session connected to the first account of
\* that list, at page start as well as after an earlier disconnect.
C12_GrantedConnectConnects ==
    (/\ conn.pc = "done"
     /\ hasEthereum
     /\ ~conn.wasConnected
     /\ conn.wallet.error = null
     /\ Len(conn.wallet.accounts) > 0) =>
        /\ conn.endConnected
        /\ conn.endAccount = conn.wallet.accounts[1]

\* C13: a disconnect leaves the session disconnected with account and chain
\* id none, whatever the state it ran in, and a disconnect that follows a
\* disconnect changes no session field.
C13_DisconnectResets ==
    [][op' = "disconnect" =>
          /\ ~isConnected'
          /\ currentAccount' = NoAccount
          /\ chainId' = null
          /\ op = "disconnect" =>
                UNCHANGED <<isConnected, currentAccount, provider, chainId>>]_vars

\* the disconnect ran while connectWallet was awaiting the chain id
C13_Witness ==
    /\ op = "disconnect"
    /\ conn.pc = "chain"
    /\ ~isConnected
    /\ chainId = null

\* a step in which the wallet pushed a new account list to the listener
PushedAccounts ==
    /\ op' = "handleAccountsChanged"
    /\ walletAccounts' # walletAccounts

\* C14: a connected session is disconnected by a pushed empty account list,
\* by a disconnect call and by the provider's disconnect event; a pushed
\* non-empty list leaves it connected, with the first entry as its account.
C14_ConnectedToDisconnected ==
    [][isConnected =>
          /\ (PushedAccounts /\ walletAccounts' = << >>) => ~isConnected'
          /\ op' = "disconnect" => ~isConnected'
          /\ op' = "handleDisconnect" => ~isConnected'
          /\ (PushedAccounts /\ walletAccounts' # << >>) =>
                (isConnected' /\ currentAccount' = walletAccounts'[1])]_vars

\* a session that connectWallet had connected received an empty list
C14_Witness ==
    /\ op = "handleAccountsChanged"
    /\ walletAccounts = << >>
    /\ conn.endConnected
    /\ ~isConnected

\* how often ensureCorrectNetwork asked the provider for a method
Asked(e, method) ==
    Cardinality({k \in DOMAIN e.requests : e.requests[k] = method})

ConnectCallStep ==
    /\ op' = "connectWallet"
    /\ conn.pc \in {"idle", "done"}
    /\ conn' # conn

\* C16: a connectWallet call on a host without a provider returns false with
\* the provider-missing message, asks the wallet for nothing and leaves
\* connected, account and chain id as they were.
C16_NoProviderFails ==
    [][(ConnectCallStep /\ ~hasEthereum) =>
          /\ conn'.pc = "done"
          /\ conn'.result = "false"
          /\ ~conn'.requested
          /\ lastToast' =
                "MetaMask is not installed. Please install MetaMask to continue."
          /\ UNCHANGED <<isConnected, currentAccount, chainId>>]_vars

C16_Witness ==
    /\ ~hasEthereum
    /\ conn.pc = "done"
    /\ conn.result = "false"
    /\ ~conn.requested

\* C17: when the account-access request fails with code 4001 or code -32002,
\* connectWallet returns false after the message of that cause, and
\* connected, account and chain id stay as they were.
C17_RejectedOrPending ==
    [][(/\ conn.pc = "request"
        /\ conn'.pc = "done"
        /\ conn.wallet.error \in {"4001", "-32002"}) =>
          /\ conn'.result = "false"
          /\ lastToast' = (IF conn.wallet.error = "4001"
                           THEN "Connection rejected by user"
                           ELSE "Connection request already pending")
          /\ UNCHANGED <<isConnected, currentAccount, chainId>>]_vars

C17_Witness ==
    /\ conn.pc = "done"
    /\ conn.requested
    /\ conn.wallet.error = "-32002"
    /\ lastToast = "Connection request already pending"

\* the button state that the four-way priority of the mint status and the
\* session calls for
ButtonFor(target, minted) ==
    IF minted THEN "Already Minted"
    ELSE IF ~isConnected THEN "Connect Wallet to Mint"
    ELSE IF ~SessionAllows(target) THEN "Can Only Mint Your Own"
    ELSE "Mint NFT"

\* C18: when a mint status arrives, the button shows the one of four states
\* that comes first in the order already-minted, wallet-not-connected,
\* wrong-account-or-network, eligible, and it is enabled iff the status says
\* not minted and canUserMint of the address is true.
C18_ButtonShowsOneOfFour ==
    [][\A i \in 1..MaxFetches :
          (fetches[i].pc = "pending" /\ fetches'[i].pc = "answered") =>
             LET target == fetches[i].trader
                 minted == fetches'[i].answer = "minted"
             IN /\ mintButton'.text = ButtonFor(target, minted)
                /\ ~mintButton'.disabled <=> (~minted /\ canUserMint(target))]_vars

\* a status of already minted arrived for a session that is not connected
C18_Witness ==
    /\ ~isConnected
    /\ \E i \in 1..MaxFetches :
          fetches[i].pc = "answered" /\ fetches[i].answer = "minted"
    /\ mintButton = [text |-> "Already Minted", disabled |-> TRUE]

\* C19: no transaction is handed to the wallet for a mint of an account whose
\* mint status, as received last, says already minted.
C19_NoSendWhenMinted ==
    [][\A i \in AttemptIds :
          (att[i].pc = "accounts" /\ att'[i].pc = "sign") =>
             status[toLowerCase(att[i].trader)] # "minted"]_vars

\* a step in which an address that has a successful mint call calls a mint
\* entry point again
LaterMintCall ==
    /\ lastCall'.step = "call"
    /\ lastCall'.fn \in MintFunctions
    /\ mintLog[lastCall'.caller] >= 1

\* C20: for every address at most one mint call, through either entry point,
\* succeeds; a mint call that the address makes after one succeeded reverts
\* and leaves the token counter, hasMinted and traderToTokenId as they were.
C20_OneMintPerAddress ==
    [][/\ stack' = << >> => \A a \in Addresses : mintLog'[a] <= 1
       /\ LaterMintCall =>
             /\ lastCall'.outcome = "reverted"
             /\ UNCHANGED <<tokenIdCounter, hasMinted, traderToTokenId>>]_vars

\* a step in which a mint entry point is called
MintEntryStep ==
    /\ lastCall'.step = "call"
    /\ lastCall'.fn \in MintFunctions

\* C21: while minting is paused no call of a mint entry point mints a token:
\* the token counter and the owners of the tokens stay as they were.
C21_PausedMintsNothing ==
    [][(mintingPaused /\ MintEntryStep) =>
          UNCHANGED <<tokenIdCounter, tokenOwner>>]_vars

\* the characters 0-9, a-f and A-F
IsHexCharacter(c) ==
    \/ c \in {"0", "1", "2", "3", "4", "5", "6", "7", "8", "9"}
    \/ c \in {"a", "b", "c", "d", "e", "f"}
    \/ c \in {"A", "B", "C", "D", "E", "F"}

\* a string of exactly 42 characters: "0x", then 40 hexadecimal characters
WellFormedAddress(v) ==
    /\ ~v.isNull
    /\ Len(v.chars) = 42
    /\ v.chars[1] = "0"
    /\ v.chars[2] = "x"
    /\ \A i \in 3..42 : IsHexCharacter(v.chars[i])

\* C22: isValidAddress(s) is true iff s is exactly 42 characters, "0x" and
\* then 40 characters each in 0-9, a-f or A-F; so it is false for shorter,
\* longer and non-hex strings and for strings with surrounding whitespace.
C22_ValidIffWellFormed ==
    valid.called => (valid.value <=> WellFormedAddress(addressArg))

\* true for an address whose digits are written in both cases
C22_Witness ==
    /\ valid.called
    /\ valid.value
    /\ \E i, j \in 3..42 : addressArg.chars[i] = "a" /\ addressArg.chars[j] = "A"

\* the first n and the last n characters of s
FirstChars(s, n) == [i \in 1..n |-> s[i]]
LastChars(s, n) == [i \in 1..n |-> s[Len(s) - n + i]]

\* what formatAddress is to return for v
FormatOf(v) ==
    IF v.isNull \/ Len(v.chars) < 10
    THEN v
    ELSE Str(FirstChars(v.chars, 6) \o <<".", ".", ".">> \o LastChars(v.chars, 4))

\* C23: formatAddress(s) returns s unchanged when s is null or shorter than
\* 10 characters, and otherwise the first 6 characters of s, "..." and the
\* last 4 characters of s; the formatter of the session display returns the
\* same as MandalaApp.formatAddress for the same input.
C23_FormatAddress ==
    /\ formatted.called => formatted.value = FormatOf(addressArg)
    /\ (formatted.called /\ shown.called) => shown.value = formatted.value

\* the tokens a owns
TokensOf(a) == {t \in DOMAIN tokenOwner : tokenOwner[t] = a}

\* C24: when no mint call is being executed, no address owns more than one
\* token, whatever the callers did in their token-receipt callbacks.
C24_OneTokenPerAddress ==
    stack = << >> => \A a \in Addresses : Cardinality(TokensOf(a)) <= 1

\* every mint-status request issued so far was answered
AllAnswered == \A i \in 1..nFetch : fetches[i].pc = "answered"

\* C25: once the responses to two or more status fetches have all arrived,
\* in whatever order, the mint button shows the status of the fetch issued
\* last: it reads already minted iff that fetch was answered minted.
C25_ButtonShowsLatestFetch ==
    (nFetch >= 2 /\ AllAnswered) =>
       (mintButton.text = "Already Minted" <=> fetches[nFetch].answer = "minted")

\* a step in which the wallet pushed a change of network
PushedChain == walletChain' # walletChain

\* C26: a disconnected session becomes connected only in a step of
\* connectWallet whose account-access request the wallet granted or in the
\* startup account check of init(); an accounts-changed or chain-changed
\* event pushed right after disconnectWallet leaves the session disconnected
\* with account and chain id none.
C26_ConnectedOnlyByConnectOrStartup ==
    [][/\ (~isConnected /\ isConnected') =>
             \/ op' = "connectWallet" /\ conn.wallet.error = null
             \/ op' = "init"
       /\ (op = "disconnect" /\ (PushedAccounts \/ PushedChain)) =>
             /\ ~isConnected'
             /\ currentAccount' = NoAccount
             /\ chainId' = null]_vars

\* C27: in every reachable state in which the session is disconnected its
\* chain id is none, also when disconnectWallet ran while a
\* handleAccountsChanged was awaiting the answer to eth_chainId.
C27_DisconnectedHasNoChain == ~isConnected => chainId = null

\* C28: when a transaction is handed to the wallet, its from field is the
\* current account of the session at that moment.
C28_FromIsSessionAccount ==
    [][\A i \in AttemptIds :
          (att[i].pc = "accounts" /\ att'[i].pc = "sign") =>
             att'[i].from = currentAccount]_vars

\* a step in which an attempt ends because its polls are used up: the last
\* of them got no final answer
CeilingExhausted(i) ==
    /\ att[i].pc = "poll"
    /\ att'[i].pc = "rejected"
    /\ att'[i].attempts = maxAttempts
    /\ att'[i].answer \in {"pending", "other", "error"}

\* C29: when an attempt ends by exhausting the ceiling of 60 polls, a
\* message is shown to the user in that step, and it is not the message of a
\* transaction that the status endpoint reported failed.
C29_TimeoutShownDistinctly ==
    [][\A i \in AttemptIds :
          CeilingExhausted(i) =>
             /\ att'[i].errToast
             /\ lastToast' \in ErrorToasts
             /\ lastToast' # ConfirmationErrorToast("Transaction failed")]_vars

\* a step in which the prepare-mint request of attempt i fails
PrepareFails(i) ==
    /\ att[i].pc = "prepare"
    /\ att'[i].error # null

\* the attempt ended because its prepare-mint request failed
PrepareFailed(i) ==
    /\ att[i].pc = "failed"
    /\ att[i].error = "Failed to prepare minting transaction"

\* C30: when the prepare-mint request fails, the attempt ends failed in that
\* step with isMinting false, before any confirmation dialog, without a
\* transaction handed to the wallet and without a status poll, and nothing
\* happens in the attempt afterwards.
C30_PrepareFailureEndsAttempt ==
    [][\A i \in AttemptIds :
          /\ PrepareFails(i) =>
                /\ att'[i].pc = "failed"
                /\ ~isMinting'
                /\ att'[i].from = NoAccount
                /\ att'[i].hash = null
                /\ att'[i].attempts = 0
          /\ (PrepareFailed(i) /\ att'[i] # att[i]) => nAtt' = 0]_vars

C30_Witness ==
    \E i \in AttemptIds :
       /\ PrepareFailed(i)
       /\ ~isMinting
       /\ att[i].from = NoAccount
       /\ att[i].hash = null
       /\ att[i].attempts = 0

\* the errors executeTransaction throws, lines 497 and 511-517
SubmissionErrors ==
    {"Transaction rejected by user",
     "Transaction failed: wallet error",
     "Transaction failed: No wallet connected"}

\* a step in which the submission of attempt i to the wallet fails
SubmissionFails(i) ==
    /\ att[i].pc \in {"accounts", "sign"}
    /\ att'[i].error # null

\* C31: when the wallet rejects or fails the submission, or exposes no
\* account, the attempt ends failed in that step with isMinting false and
\* without a poll, and nothing happens in it afterwards; a poll is issued
\* only for an attempt that holds the hash the wallet returned, and every
\* later poll of the attempt is for the same hash.
C31_SubmissionFailureEndsAttempt ==
    [][\A i \in AttemptIds :
          /\ SubmissionFails(i) =>
                /\ att'[i].pc = "failed"
                /\ att'[i].error \in SubmissionErrors
                /\ ~isMinting'
                /\ att'[i].hash = null
                /\ att'[i].attempts = 0
          /\ (/\ att[i].pc = "failed"
              /\ att[i].error \in SubmissionErrors
              /\ att'[i] # att[i]) => nAtt' = 0
          /\ att'[i].attempts > att[i].attempts =>
                /\ att'[i].hash \in Hashes
                /\ att[i].attempts > 0 => att'[i].hash = att[i].hash]_vars

\* the user rejected the transaction in the wallet
C31_Witness ==
    \E i \in AttemptIds :
       /\ att[i].pc = "failed"
       /\ att[i].error = "Transaction rejected by user"
       /\ att[i].from # NoAccount
       /\ att[i].attempts = 0
       /\ ~isMinting

\* C32: an attempt makes at most one eth_sendTransaction request; the
\* request carries the transaction that the prepare-mint call of the same
\* attempt returned, and it is made only after the user accepted the
\* confirmation dialog of that attempt.
C32_OneSendPerAttempt ==
    \A i \in AttemptIds :
       /\ Len(att[i].sent) <= 1
       /\ att[i].sent # << >> =>
             /\ att[i].accepted
             /\ att[i].transaction # null
             /\ att[i].sent[1].transaction = att[i].transaction
             /\ \A j \in AttemptIds \ {i} :
                   att[i].sent[1].transaction # att[j].transaction

\* two attempts on one page have each sent their own transaction
C32_Witness ==
    /\ att[1].sent # << >>
    /\ att[2].sent # << >>
    /\ att[1].sent[1].transaction # att[2].sent[1].transaction

\* the attempt has ended: declined, confirmed, failed, or rejected by the
\* poll that used up the ceiling
Ended(i) == att[i].pc \in {"declined", "confirmed", "failed", "rejected"}

Granted(c) ==
    /\ c.requested
    /\ c.wallet.error = null
    /\ Len(c.wallet.accounts) > 0

\* C34: at the step in which a granted account-access request is answered
\* the session becomes connected to the first account, before
\* ensureCorrectNetwork is invoked; a connectWallet invocation that was
\* granted has invoked ensureCorrectNetwork exactly once when it returns; and
\* it returns true only when that invocation has returned.
C34_GrantedConnectEnsuresOnce ==
    [][/\ (/\ conn.pc = "request"
           /\ conn'.pc \notin {"request", "idle"}
           /\ Granted(conn)) =>
             /\ isConnected'
             /\ currentAccount' = conn.wallet.accounts[1]
             /\ conn'.ensured = 0
       /\ (conn'.pc = "done" /\ Granted(conn')) => conn'.ensured = 1
       /\ conn'.result = "true" =>
             /\ conn'.ensured = 1
             /\ ens'["connect"].pc = "done"]_vars

\* a step in which checkMintStatus is called and runs up to its first await
\* or early return
CheckCalled ==
    /\ lastCheck'.called
    /\ (lastCheck' # lastCheck \/ nFetch' # nFetch)

\* a step in which the mint-status request of fetch i fails: the fetch or
\* the parsing of its body is rejected and the catch of lines 342-344 runs
FetchFails(i) == fetches[i].pc = "pending" /\ fetches'[i].pc = "failed"

\* what every checkMintStatus call keeps: the button, the toast and the
\* requests issued before
CallKeepsPage ==
    /\ mintButton' = mintButton
    /\ lastToast' = lastToast
    /\ status' = status
    /\ \A j \in 1..nFetch : fetches'[j] = fetches[j]

MintedIds == {t \in DOMAIN tokenOwner : tokenOwner[t] # ZeroAddress}

\* the mint calls that succeeded so far, over all callers
RECURSIVE SuccessfulMints(_)
SuccessfulMints(callers) ==
    IF callers = {}
    THEN 0
    ELSE LET a == CHOOSE x \in callers : TRUE
         IN mintLog[a] + SuccessfulMints(callers \ {a})

\* the ids are 1, 2, 3, ... without a gap and totalSupply() is their number;
\* between transactions it is the number of mint calls that succeeded
SupplyCountsTokens ==
    /\ MintedIds = 1..totalSupply
    /\ totalSupply = Cardinality(MintedIds)
    /\ stack = << >> => totalSupply = SuccessfulMints(Addresses)

\* C36: the tokens that exist always bear the ids 1 to totalSupply(), and
\* totalSupply() is their number and, between transactions, the number of
\* mint calls that succeeded; a step in which a token is minted gives it the
\* id after the ids of the tokens minted before it, an id no existing token
\* bears, and no other step adds a token or changes the owner of one, so the
\* k-th token minted has id k.
C36_SequentialIds ==
    /\ []SupplyCountsTokens
    /\ [][/\ MintedIds' \ MintedIds # {} =>
                /\ MintedIds' = MintedIds \cup {totalSupply + 1}
                /\ totalSupply' = totalSupply + 1
                /\ lastCall'.outcome \in {"succeeded", "callback"}
                /\ tokenOwner'[totalSupply + 1] = lastCall'.caller
          /\ \A t \in MintedIds \cap MintedIds' : tokenOwner'[t] = tokenOwner[t]
          /\ MintedIds' \ MintedIds = {} =>
                \/ MintedIds' = MintedIds
                \/ lastCall'.outcome = "reverted"]_vars

\* three tokens were minted: two by a contract that called the mint function
\* again from its token-receipt callback, one by an account without code
C36_Witness ==
    /\ stack = << >>
    /\ totalSupply = 3
    /\ mintLog["vault"] = 2
    /\ mintLog["alice"] = 1
    /\ tokenOwner[3] # ZeroAddress

\* C37: between transactions, for every address a, getTraderTokenId(a)
\* reverts iff a minted no token, and otherwise returns the id of the token
\* a minted, a being the minter of that token and of no other; in every
\* state hasMinted[a] holds iff traderToTokenId[a] is not zero, and two
\* different addresses are never mapped to the same non-zero id.
C37_TraderTokenId ==
    /\ stack = << >> =>
          \A a \in Addresses :
             /\ getTraderTokenId(a).reverted <=> TokensOf(a) = {}
             /\ ~getTraderTokenId(a).reverted =>
                   TokensOf(a) = {getTraderTokenId(a).value}
    /\ \A a \in Addresses : hasMinted[a] <=> traderToTokenId[a] # 0
    /\ \A a, b \in Addresses :
          (a # b /\ traderToTokenId[a] # 0) =>
             traderToTokenId[a] # traderToTokenId[b]

=============================================================================
